---- MODULE Spec2Model ----
(***************************************************************************)
(* Model of the INSERT column extractor of main.go: the rune-by-rune       *)
(* tokenizer columnExtractor.parse with its three recursive sub-scanners,  *)
(* and columnExtractor.columns over the token stream.                      *)
(*                                                                         *)
(* A Go string is a sequence of bytes: an ASCII byte is written as its     *)
(* character, the bytes of the two-byte rune U+00E9 as "xC3" "xA9".  A     *)
(* rune is written as its character, "U+0060" for the backtick, "U+00E9"   *)
(* and "U+FFFD".  byteIndex counts bytes, currToken holds runes, a token   *)
(* is a string; the empty sequence is the Go string "".  The queries are   *)
(* valid UTF-8.                                                            *)
(***************************************************************************)
EXTENDS Integers, Sequences, FiniteSets, TLC

\* the extractor under study, field by field; a second extractor, as a
\* record of the same fields; the package-level table of identifier runes
VARIABLES query, currToken, tokens, byteIndex, errs, err, cols, pc,
          other, validIdentifierChars

vars ==
  <<query, currToken, tokens, byteIndex, errs, err, cols, pc,
    other, validIdentifierChars>>

----------------------------------------------------------------------------
(* Bounds of the model *)

\* longest query drawn from the full alphabet
MaxLen == 3
\* longest query drawn from the quote alphabet
MaxQuoteLen == 5
\* most columns of a generated well-formed statement
MaxCols == 2

----------------------------------------------------------------------------
(* Code points *)

\* the backtick, written by its code point
BackTick == "U+0060"
SingleQuote == "'"
BackSlash == "\\"
\* a rune outside ASCII, two bytes in UTF-8
WideRune == "U+00E9"
\* utf8.RuneError, what DecodeRuneInString yields for a byte that starts no rune
RuneError == "U+FFFD"
\* the nil error
Nil == <<"nil">>

Letters ==
  { "a","b","c","d","e","f","g","h","i","j","k","l","m",
    "n","o","p","q","r","s","t","u","v","w","x","y","z",
    "A","B","C","D","E","F","G","H","I","J","K","L","M",
    "N","O","P","Q","R","S","T","U","V","W","X","Y","Z" }

Digits == { "0","1","2","3","4","5","6","7","8","9" }

\* the contents init() gives the lookup table validIdentifierChars
initValidIdentifierChars == Letters \cup Digits \cup {"_"}

\* isSpace knowing the blank only
isSpaceBroken(r) == r = " "

isSpace(r) == r = " " \/ r = "\t" \/ r = "\n"

Punctuation == { "(", ")", ",", "." }

\* the UTF-8 encoding of rune r
EncodeRune(r) ==
  IF r = WideRune THEN <<"xC3", "xA9">>
  ELSE IF r = RuneError THEN <<"xEF", "xBF", "xBD">>
  ELSE <<r>>

\* the bytes that are not ASCII
HighBytes == {"xC3", "xA9", "xEF", "xBF", "xBD"}

RECURSIVE String(_)
\* string(rs) for a slice of runes rs: the encodings of the runes in order
String(rs) == IF rs = <<>> THEN <<>> ELSE EncodeRune(Head(rs)) \o String(Tail(rs))

\* len(e.query): the length of the query in bytes
ByteLen(q) == Len(q)

\* utf8.DecodeRuneInString(q[b:]) for b < len(q): the rune encoded at byte b
\* and its width, or (RuneError, 1) when no encoding starts there
DecodeRuneInString(q, b) ==
  LET c == q[b + 1]
  IN  IF c \notin HighBytes THEN [rune |-> c, width |-> 1]
      ELSE IF c = "xC3" /\ b + 2 <= Len(q) /\ q[b + 2] = "xA9"
      THEN [rune |-> WideRune, width |-> 2]
      ELSE IF c = "xEF" /\ b + 3 <= Len(q) /\ q[b + 2] = "xBF" /\ q[b + 3] = "xBD"
      THEN [rune |-> RuneError, width |-> 3]
      ELSE [rune |-> RuneError, width |-> 1]

----------------------------------------------------------------------------
(* The extractor as a value: the fields of columnExtractor, the locals of  *)
(* parse (errs), its result (err), the result of columns (cols) and the    *)
(* control position pc.                                                    *)

Self ==
  [ query |-> query, currToken |-> currToken, tokens |-> tokens,
    byteIndex |-> byteIndex, errs |-> errs, err |-> err, cols |-> cols,
    pc |-> pc ]

\* &columnExtractor{query: q}
NewExtractor(q) ==
  [ query |-> q, currToken |-> <<>>, tokens |-> <<>>, byteIndex |-> 0,
    errs |-> <<>>, err |-> Nil, cols |-> <<>>, pc |-> "start" ]

UnclosedBackTick == <<"unclosed backtick quote">>
UnclosedSingleQuote == <<"unclosed single quote">>
UnexpectedRune(r) == <<"unexpected rune: ", String(<<r>>)>>

\* parse, lines 81-84: the fresh token and error slices
parseBegin(e) ==
  [e EXCEPT !.tokens = <<>>, !.currToken = <<>>, !.errs = <<>>, !.pc = "scan"]

\* parseUntilClosingBackTick ending the run at a punctuation rune, as the
\* identifier scanner does
parseUntilClosingBackTickSplit(e) ==
  IF ByteLen(e.query) = e.byteIndex
  THEN [e EXCEPT !.errs = Append(@, UnclosedBackTick),
                 !.tokens = Append(@, <<>>),
                 !.pc = "scan"]
  ELSE LET d   == DecodeRuneInString(e.query, e.byteIndex)
           cur == Append(e.currToken, d.rune)
           adv == [e EXCEPT !.byteIndex = @ + d.width, !.currToken = cur]
       IN  IF d.rune \in Punctuation
           THEN [e EXCEPT !.tokens = Append(@, String(e.currToken)), !.pc = "scan"]
           ELSE IF d.rune = BackTick /\ cur[Len(cur) - 1] # BackSlash
                THEN [adv EXCEPT !.tokens = Append(@, String(cur)), !.pc = "scan"]
                ELSE adv

\* parseUntilClosingBackTick looking back two runes: a backtick after an
\* escaped backslash closes the run
parseUntilClosingBackTickTwoStep(e) ==
  IF ByteLen(e.query) = e.byteIndex
  THEN [e EXCEPT !.errs = Append(@, UnclosedBackTick),
                 !.tokens = Append(@, <<>>),
                 !.pc = "scan"]
  ELSE LET d   == DecodeRuneInString(e.query, e.byteIndex)
           cur == Append(e.currToken, d.rune)
           adv == [e EXCEPT !.byteIndex = @ + d.width, !.currToken = cur]
       IN  IF d.rune = BackTick /\ Len(cur) < 2
           THEN [adv EXCEPT !.pc = "panic"]
           ELSE IF /\ d.rune = BackTick
                   /\ \/ cur[Len(cur) - 1] # BackSlash
                      \/ (Len(cur) > 3 /\ cur[Len(cur) - 2] = BackSlash)
                THEN [adv EXCEPT !.tokens = Append(@, String(cur)), !.pc = "scan"]
                ELSE adv

\* one call of parseUntilClosingBackTick and, when it returns, the caller's
\* lines 98-101: a nil token becomes the string ""
parseUntilClosingBackTick(e) ==
  IF ByteLen(e.query) = e.byteIndex
  THEN [e EXCEPT !.errs = Append(@, UnclosedBackTick),
                 !.tokens = Append(@, <<>>),
                 !.pc = "scan"]
  ELSE LET d   == DecodeRuneInString(e.query, e.byteIndex)
           cur == Append(e.currToken, d.rune)
           adv == [e EXCEPT !.byteIndex = @ + d.width, !.currToken = cur]
       IN  IF d.rune = BackTick /\ Len(cur) < 2
           THEN [adv EXCEPT !.pc = "panic"]
           ELSE IF d.rune = BackTick /\ cur[Len(cur) - 1] # BackSlash
                THEN [adv EXCEPT !.tokens = Append(@, String(cur)), !.pc = "scan"]
                ELSE adv

\* parseUntilClosingSingleQuote returning the run read so far, not nil, when
\* the input ends inside it
parseUntilClosingSingleQuotePartial(e) ==
  IF ByteLen(e.query) = e.byteIndex
  THEN [e EXCEPT !.errs = Append(@, UnclosedSingleQuote),
                 !.tokens = Append(@, String(e.currToken)),
                 !.pc = "scan"]
  ELSE LET d   == DecodeRuneInString(e.query, e.byteIndex)
           cur == Append(e.currToken, d.rune)
           adv == [e EXCEPT !.byteIndex = @ + d.width, !.currToken = cur]
       IN  IF d.rune = SingleQuote /\ cur[Len(cur) - 1] # BackSlash
           THEN [adv EXCEPT !.tokens = Append(@, String(cur)), !.pc = "scan"]
           ELSE adv

\* one call of parseUntilClosingSingleQuote and the caller's lines 105-108
parseUntilClosingSingleQuote(e) ==
  IF ByteLen(e.query) = e.byteIndex
  THEN [e EXCEPT !.errs = Append(@, UnclosedSingleQuote),
                 !.tokens = Append(@, <<>>),
                 !.pc = "scan"]
  ELSE LET d   == DecodeRuneInString(e.query, e.byteIndex)
           cur == Append(e.currToken, d.rune)
           adv == [e EXCEPT !.byteIndex = @ + d.width, !.currToken = cur]
       IN  IF d.rune = SingleQuote /\ Len(cur) < 2
           THEN [adv EXCEPT !.pc = "panic"]
           ELSE IF d.rune = SingleQuote /\ cur[Len(cur) - 1] # BackSlash
                THEN [adv EXCEPT !.tokens = Append(@, String(cur)), !.pc = "scan"]
                ELSE adv

\* parseNonQuotedIdentifier consuming the rune that ends the identifier
parseNonQuotedIdentifierConsumes(e) ==
  IF ByteLen(e.query) = e.byteIndex
  THEN [e EXCEPT !.tokens = Append(@, String(e.currToken)), !.pc = "scan"]
  ELSE LET d == DecodeRuneInString(e.query, e.byteIndex)
       IN  IF d.rune \notin validIdentifierChars
           THEN [e EXCEPT !.byteIndex = @ + d.width,
                          !.tokens = Append(@, String(e.currToken)), !.pc = "scan"]
           ELSE [e EXCEPT !.byteIndex = @ + d.width,
                          !.currToken = Append(@, d.rune)]

\* parseNonQuotedIdentifier taking the dot of a qualified name into the
\* identifier
parseNonQuotedIdentifierDotted(e) ==
  IF ByteLen(e.query) = e.byteIndex
  THEN [e EXCEPT !.tokens = Append(@, String(e.currToken)), !.pc = "scan"]
  ELSE LET d == DecodeRuneInString(e.query, e.byteIndex)
       IN  IF d.rune \notin validIdentifierChars \cup {"."}
           THEN [e EXCEPT !.tokens = Append(@, String(e.currToken)), !.pc = "scan"]
           ELSE [e EXCEPT !.byteIndex = @ + d.width,
                          !.currToken = Append(@, d.rune)]

\* one call of parseNonQuotedIdentifier and the caller's lines 115-118
parseNonQuotedIdentifier(e) ==
  IF ByteLen(e.query) = e.byteIndex
  THEN [e EXCEPT !.tokens = Append(@, String(e.currToken)), !.pc = "scan"]
  ELSE LET d == DecodeRuneInString(e.query, e.byteIndex)
       IN  IF d.rune \notin validIdentifierChars
           THEN [e EXCEPT !.tokens = Append(@, String(e.currToken)), !.pc = "scan"]
           ELSE [e EXCEPT !.byteIndex = @ + d.width,
                          !.currToken = Append(@, d.rune)]

\* the loop of parse advancing the cursor by one byte whatever the rune
parseLoopByteStep(e) ==
  LET d   == DecodeRuneInString(e.query, e.byteIndex)
      adv == [e EXCEPT !.byteIndex = @ + 1]
  IN  IF isSpace(d.rune) THEN adv
      ELSE IF d.rune = BackTick
      THEN [adv EXCEPT !.currToken = <<d.rune>>, !.pc = "backtick"]
      ELSE IF d.rune = SingleQuote
      THEN [adv EXCEPT !.currToken = <<d.rune>>, !.pc = "single"]
      ELSE IF d.rune \in Punctuation
      THEN [adv EXCEPT !.tokens = Append(@, String(<<d.rune>>))]
      ELSE IF d.rune \in validIdentifierChars
      THEN [adv EXCEPT !.currToken = <<d.rune>>, !.pc = "ident"]
      ELSE [adv EXCEPT !.errs = Append(@, UnexpectedRune(d.rune))]

\* the loop of parse starting an identifier without resetting currToken
parseLoopNoReset(e) ==
  LET d   == DecodeRuneInString(e.query, e.byteIndex)
      adv == [e EXCEPT !.byteIndex = @ + d.width]
  IN  IF isSpace(d.rune) THEN adv
      ELSE IF d.rune = BackTick
      THEN [adv EXCEPT !.currToken = <<d.rune>>, !.pc = "backtick"]
      ELSE IF d.rune = SingleQuote
      THEN [adv EXCEPT !.currToken = <<d.rune>>, !.pc = "single"]
      ELSE IF d.rune \in Punctuation
      THEN [adv EXCEPT !.tokens = Append(@, String(<<d.rune>>))]
      ELSE IF d.rune \in validIdentifierChars
      THEN [adv EXCEPT !.currToken = Append(@, d.rune), !.pc = "ident"]
      ELSE [adv EXCEPT !.errs = Append(@, UnexpectedRune(d.rune))]

\* the loop of parse leaving the cursor on a rune it does not expect
parseLoopStuck(e) ==
  LET d   == DecodeRuneInString(e.query, e.byteIndex)
      adv == [e EXCEPT !.byteIndex = @ + d.width]
  IN  IF isSpace(d.rune) THEN adv
      ELSE IF d.rune = BackTick
      THEN [adv EXCEPT !.currToken = <<d.rune>>, !.pc = "backtick"]
      ELSE IF d.rune = SingleQuote
      THEN [adv EXCEPT !.currToken = <<d.rune>>, !.pc = "single"]
      ELSE IF d.rune \in Punctuation
      THEN [adv EXCEPT !.tokens = Append(@, String(<<d.rune>>))]
      ELSE IF d.rune \in validIdentifierChars
      THEN [adv EXCEPT !.currToken = <<d.rune>>, !.pc = "ident"]
      ELSE [e EXCEPT !.errs = Append(@, UnexpectedRune(d.rune))]

\* the loop of parse resetting currToken for a quoted run without the
\* opening quote
parseLoopResetEmpty(e) ==
  LET d   == DecodeRuneInString(e.query, e.byteIndex)
      adv == [e EXCEPT !.byteIndex = @ + d.width]
  IN  IF isSpace(d.rune) THEN adv
      ELSE IF d.rune = BackTick
      THEN [adv EXCEPT !.currToken = <<>>, !.pc = "backtick"]
      ELSE IF d.rune = SingleQuote
      THEN [adv EXCEPT !.currToken = <<>>, !.pc = "single"]
      ELSE IF d.rune \in Punctuation
      THEN [adv EXCEPT !.tokens = Append(@, String(<<d.rune>>))]
      ELSE IF d.rune \in validIdentifierChars
      THEN [adv EXCEPT !.currToken = <<d.rune>>, !.pc = "ident"]
      ELSE [adv EXCEPT !.errs = Append(@, UnexpectedRune(d.rune))]

\* one iteration of the loop of parse, up to the call of a sub-scanner
parseLoop(e) ==
  LET d   == DecodeRuneInString(e.query, e.byteIndex)
      adv == [e EXCEPT !.byteIndex = @ + d.width]
  IN  IF isSpace(d.rune) THEN adv
      ELSE IF d.rune = BackTick
      THEN [adv EXCEPT !.currToken = <<d.rune>>, !.pc = "backtick"]
      ELSE IF d.rune = SingleQuote
      THEN [adv EXCEPT !.currToken = <<d.rune>>, !.pc = "single"]
      ELSE IF d.rune \in Punctuation
      THEN [adv EXCEPT !.tokens = Append(@, String(<<d.rune>>))]
      ELSE IF d.rune \in validIdentifierChars
      THEN [adv EXCEPT !.currToken = <<d.rune>>, !.pc = "ident"]
      ELSE [adv EXCEPT !.errs = Append(@, UnexpectedRune(d.rune))]

\* errors.Join keeping the first error only
JoinFirst(es) == IF es = <<>> THEN Nil ELSE <<"joinError", <<es[1]>>>>

\* errors.Join: nil when there is no error, else an error that wraps the
\* errors in order
Join(es) == IF es = <<>> THEN Nil ELSE <<"joinError", es>>

\* parse, line 124
parseReturn(e) == [e EXCEPT !.err = Join(e.errs), !.pc = "parsed"]

RECURSIVE columnsFromCollectsParen(_, _, _, _)
\* the loop of columns collecting a second opening parenthesis as content
columnsFromCollectsParen(toks, i, openingParenthesisObserved, columns) ==
  IF i > Len(toks) THEN columns
  ELSE IF toks[i] = <<"(">> /\ ~openingParenthesisObserved
  THEN columnsFromCollectsParen(toks, i + 1, TRUE, columns)
  ELSE IF toks[i] = <<")">> THEN columns
  ELSE IF openingParenthesisObserved /\ toks[i] # <<",">>
       THEN columnsFromCollectsParen(toks, i + 1, openingParenthesisObserved,
                                     Append(columns, toks[i]))
       ELSE columnsFromCollectsParen(toks, i + 1, openingParenthesisObserved,
                                     columns)

RECURSIVE columnsFrom(_, _, _, _)
\* the loop of columns from token i on, with the flag and the list so far
columnsFrom(toks, i, openingParenthesisObserved, columns) ==
  IF i > Len(toks) THEN columns
  ELSE IF toks[i] = <<"(">> THEN columnsFrom(toks, i + 1, TRUE, columns)
  ELSE IF toks[i] = <<")">> THEN columns
  ELSE IF openingParenthesisObserved /\ toks[i] # <<",">>
       THEN columnsFrom(toks, i + 1, openingParenthesisObserved,
                        Append(columns, toks[i]))
       ELSE columnsFrom(toks, i + 1, openingParenthesisObserved, columns)

\* columnExtractor.columns
columns(toks) == columnsFrom(toks, 1, FALSE, <<>>)

\* the call extractor.columns() after parse
columnsCall(e) == [e EXCEPT !.cols = columns(e.tokens), !.pc = "done"]

\* the step the extractor takes next
Step(e) ==
  CASE e.pc = "start"    -> parseBegin(e)
    [] e.pc = "scan"     -> IF e.byteIndex < ByteLen(e.query)
                            THEN parseLoop(e) ELSE parseReturn(e)
    [] e.pc = "backtick" -> parseUntilClosingBackTick(e)
    [] e.pc = "single"   -> parseUntilClosingSingleQuote(e)
    [] e.pc = "ident"    -> parseNonQuotedIdentifier(e)
    [] e.pc = "parsed"   -> columnsCall(e)
    [] OTHER             -> e

RECURSIVE RunFrom(_)
RunFrom(e) == IF e.pc \in {"done", "panic"} THEN e ELSE RunFrom(Step(e))

\* parse() then columns() on a fresh extractor for q
Run(q) == RunFrom(NewExtractor(q))

----------------------------------------------------------------------------
(* Inputs *)

Alphabet ==
  { " ", BackTick, SingleQuote, "(", ")", ",", ".", "a", BackSlash, WideRune }

QuoteAlphabet == { BackTick, SingleQuote, BackSlash, "a" }

\* the strings of at most n runes of A
Strings(A, n) == { String(rs) : rs \in UNION { [1..k -> A] : k \in 0..n } }

(* The queries of main.go and main_test.go *)

\* INSERT INTO table (column1, column2)
QuerySimple ==
  <<"I","N","S","E","R","T"," ","I","N","T","O"," ","t","a","b","l","e"," ",
      "(","c","o","l","u","m","n","1",","," ","c","o","l","u","m","n","2",
      ")">>

\* INSERT INTO db.table (column1, column2)
QueryDots ==
  <<"I","N","S","E","R","T"," ","I","N","T","O"," ","d","b",".","t","a","b",
      "l","e"," ","(","c","o","l","u","m","n","1",","," ","c","o","l","u",
      "m","n","2",")">>

\* INSERT INTO table ('column 1')
QuerySingleQuotes ==
  <<"I","N","S","E","R","T"," ","I","N","T","O"," ","t","a","b","l","e"," ",
      "(",SingleQuote,"c","o","l","u","m","n"," ","1",SingleQuote,")">>

\* INSERT INTO table ([bt]column1[bt])
QueryBackTicks ==
  <<"I","N","S","E","R","T"," ","I","N","T","O"," ","t","a","b","l","e"," ",
      "(",BackTick,"c","o","l","u","m","n","1",BackTick,")">>

\* INSERT INTO table ([bt]colum\[bt]n1[bt], [bt]colu'mn2[bt])
QueryEscaped ==
  <<"I","N","S","E","R","T"," ","I","N","T","O"," ","t","a","b","l","e"," ",
      "(",BackTick,"c","o","l","u","m",BackSlash,BackTick,"n","1",BackTick,
      ","," ",BackTick,"c","o","l","u",SingleQuote,"m","n","2",BackTick,")">>

\* INSERT INTO table ([bt]WEIGHT (kg)[bt] )
QueryParentheses ==
  <<"I","N","S","E","R","T"," ","I","N","T","O"," ","t","a","b","l","e"," ",
      "(",BackTick,"W","E","I","G","H","T"," ","(","k","g",")",BackTick," ",
      ")">>

\* INSERT INTO table ([bt]WEIGHT, in kg[bt] )
QueryComma ==
  <<"I","N","S","E","R","T"," ","I","N","T","O"," ","t","a","b","l","e"," ",
      "(",BackTick,"W","E","I","G","H","T",","," ","i","n"," ","k","g",
      BackTick," ",")">>

\* INSERT INTO table ([bt]WEIGHT, in kg[bt], 'height in cm.')
QueryColumns ==
  <<"I","N","S","E","R","T"," ","I","N","T","O"," ","t","a","b","l","e"," ",
      "(",BackTick,"W","E","I","G","H","T",","," ","i","n"," ","k","g",
      BackTick,","," ",SingleQuote,"h","e","i","g","h","t"," ","i","n"," ",
      "c","m",".",SingleQuote,")">>

\* INSERT INTO table(column1, column2)
QueryNoSpace ==
  <<"I","N","S","E","R","T"," ","I","N","T","O"," ","t","a","b","l","e","(",
      "c","o","l","u","m","n","1",","," ","c","o","l","u","m","n","2",")">>

\* INSERT INTO [bt]DATA (BASE[bt].[bt]A (TABLE)[bt] ( [bt]column \[bt]one[bt], columnTwo, 'col)umn\' (three ')
QueryMain1 ==
  <<"I","N","S","E","R","T"," ","I","N","T","O"," ",BackTick,"D","A","T",
      "A"," ","(","B","A","S","E",BackTick,".",BackTick,"A"," ","(","T","A",
      "B","L","E",")",BackTick," ","("," ",BackTick,"c","o","l","u","m","n",
      " ",BackSlash,BackTick,"o","n","e",BackTick,","," ","c","o","l","u",
      "m","n","T","w","o",","," ",SingleQuote,"c","o","l",")","u","m","n",
      BackSlash,SingleQuote," ","(","t","h","r","e","e"," ",SingleQuote,")">>

\* INSERT INTO db.table ([bt]ITEM[bt], [bt]QTY (MT)[bt])
QueryMain2 ==
  <<"I","N","S","E","R","T"," ","I","N","T","O"," ","d","b",".","t","a","b",
      "l","e"," ","(",BackTick,"I","T","E","M",BackTick,","," ",BackTick,
      "Q","T","Y"," ","(","M","T",")",BackTick,")">>

TestQueries ==
  { QuerySimple, QueryDots, QuerySingleQuotes, QueryBackTicks, QueryEscaped,
    QueryParentheses, QueryComma, QueryColumns, QueryNoSpace, QueryMain1,
    QueryMain2 }

(* Generated statements INSERT INTO <table-ref> (c1, ..., cn) *)

RECURSIVE Flatten(_)
\* the concatenation of a sequence of sequences
Flatten(ss) == IF ss = <<>> THEN <<>> ELSE Head(ss) \o Flatten(Tail(ss))

TableRefs ==
  { <<"d", "b", ".", "t">>,
    <<BackTick, "D", " ", "(", "B", BackTick, ".",
      BackTick, "A", ",", "T", ")", BackTick>> }

\* an unquoted identifier over [A-Za-z0-9_]
IsBareIdentifier(t) ==
  /\ Len(t) >= 1
  /\ \A i \in 1..Len(t) : t[i] \in Letters \cup Digits \cup {"_"}

\* a quoted identifier: it opens with a quote, and the first later occurrence
\* of that quote that no backslash precedes is its last code point
IsQuotedIdentifier(t) ==
  /\ Len(t) >= 2
  /\ t[1] \in {BackTick, SingleQuote}
  /\ t[Len(t)] = t[1]
  /\ t[Len(t) - 1] # BackSlash
  /\ \A i \in 2..(Len(t) - 1) : t[i] = t[1] => t[i - 1] = BackSlash

ColumnCandidates ==
  { <<"c", "_", "1">>,
    <<BackTick, "W", " ", "(", "k", ")", BackTick>>,
    <<SingleQuote, "h", ",", ".", SingleQuote>>,
    <<BackTick, BackSlash, BackTick, SingleQuote, BackTick>>,
    <<BackTick, "x", BackSlash, BackTick>>,
    <<SingleQuote, "y">>,
    <<"a", "-", "b">> }

ColumnEntries ==
  { c \in ColumnCandidates : IsBareIdentifier(c) \/ IsQuotedIdentifier(c) }

Paddings == { <<>>, <<" ">>, <<"\n", "\t">> }

InsertInto == <<"I", "N", "S", "E", "R", "T", " ", "I", "N", "T", "O", " ">>

RECURSIVE CommaList(_, _)
\* c1 w , w c2 w , w ... cn
CommaList(cs, w) ==
  IF Len(cs) = 1 THEN Head(cs)
  ELSE Head(cs) \o w \o <<",">> \o w \o CommaList(Tail(cs), w)

\* the statement text for table reference tr, columns cs and padding w
Statement(tr, cs, w) ==
  InsertInto \o tr \o w \o <<"(">> \o w \o CommaList(cs, w) \o w \o <<")">>

ColumnLists == UNION { [1..n -> ColumnEntries] : n \in 1..MaxCols }

Statements ==
  { Statement(tr, cs, w) : tr \in TableRefs, cs \in ColumnLists, w \in Paddings }

(* Statements that are not well formed *)

\* INSERT INTO t (a.b, [bt]c d
QueryUnclosed ==
  <<"I","N","S","E","R","T"," ","I","N","T","O"," ","t"," ","(","a",".","b",
    ","," ",BackTick,"c"," ","d">>

\* t) (a, b)
QueryClosedFirst == <<"t",")"," ","(","a",","," ","b",")">>

\* t ((a, b
QueryNested == <<"t"," ","(","(","a",","," ","b">>

\* INSERT INTO t (a-b, $c, 'd
QueryUnexpected ==
  <<"I","N","S","E","R","T"," ","I","N","T","O"," ","t"," ","(","a","-","b",
    ","," ","$","c",","," ",SingleQuote,"d">>

MalformedQueries ==
  { QueryUnclosed, QueryClosedFirst, QueryNested, QueryUnexpected }

Queries ==
  Strings(Alphabet, MaxLen) \cup Strings(QuoteAlphabet, MaxQuoteLen)
    \cup TestQueries \cup Statements \cup MalformedQueries

----------------------------------------------------------------------------
(* The lexical structure of a query, read off the text alone: the runes of *)
(* the query cut into segments, each with its kind and its text.  The      *)
(* properties below compare what the extractor did with this structure.    *)

RECURSIVE RunesFrom(_, _)
RunesFrom(q, b) ==
  IF b >= Len(q) THEN <<>>
  ELSE LET d == DecodeRuneInString(q, b)
       IN  <<d.rune>> \o RunesFrom(q, b + d.width)

\* the runes a string encodes
Runes(q) == RunesFrom(q, 0)

\* the first j > i with q[j] = q[i], no backslash at j - 1; 0 when there is none
ClosingOf(q, i) ==
  LET js == { j \in (i + 1)..Len(q) : q[j] = q[i] /\ q[j - 1] # BackSlash }
  IN  IF js = {} THEN 0 ELSE CHOOSE j \in js : \A k \in js : j <= k

\* the last position of the run of identifier characters that starts at i
RunEndOf(q, i) ==
  CHOOSE j \in i..Len(q) :
    /\ \A k \in i..j : IsBareIdentifier(<<q[k]>>)
    /\ (j = Len(q) \/ ~IsBareIdentifier(<<q[j + 1]>>))

Segment(k, q, i, j) == [kind |-> k, text |-> SubSeq(q, i, j), from |-> i, to |-> j]

RECURSIVE SegmentsFrom(_, _)
SegmentsFrom(q, i) ==
  IF i > Len(q) THEN <<>>
  ELSE IF q[i] \in {BackTick, SingleQuote}
  THEN LET j == ClosingOf(q, i)
       IN  IF j = 0 THEN << Segment("unclosed", q, i, Len(q)) >>
           ELSE << Segment("quoted", q, i, j) >> \o SegmentsFrom(q, j + 1)
  ELSE IF IsBareIdentifier(<<q[i]>>)
  THEN LET j == RunEndOf(q, i)
       IN  << Segment("identifier", q, i, j) >> \o SegmentsFrom(q, j + 1)
  ELSE IF q[i] \in {"(", ")", ",", "."}
  THEN << Segment("punctuation", q, i, i) >> \o SegmentsFrom(q, i + 1)
  ELSE IF q[i] \in {" ", "\t", "\n"}
  THEN << Segment("space", q, i, i) >> \o SegmentsFrom(q, i + 1)
  ELSE << Segment("unexpected", q, i, i) >> \o SegmentsFrom(q, i + 1)

Segments(q) == SegmentsFrom(q, 1)

IsTokenKind(g) == g.kind \in {"quoted", "identifier", "punctuation"}

\* the texts of the segments that are tokens, as strings, in order
TokenTexts(q) ==
  LET gs == SelectSeq(Segments(q), IsTokenKind)
  IN  [ k \in 1..Len(gs) |-> String(gs[k].text) ]

\* the unterminated quoted run of q, as a set of at most one segment
UnclosedOf(q) ==
  LET gs == Segments(q) IN { gs[i] : i \in { k \in 1..Len(gs) : gs[k].kind = "unclosed" } }

Parsed == pc \in {"parsed", "done"}

\* the runes of the query
Text == Runes(query)

----------------------------------------------------------------------------
(* The state machine: one extractor, built for a query, then parse() and   *)
(* columns() as main and the tests call them.                              *)

Init ==
  /\ query \in Queries
  /\ currToken = <<>>
  /\ tokens = <<>>
  /\ byteIndex = 0
  /\ errs = <<>>
  /\ err = Nil
  /\ cols = <<>>
  /\ pc = "start"
  /\ other = NewExtractor(<<>>)
  /\ validIdentifierChars = initValidIdentifierChars

\* the extractor becomes n; the query is never assigned
Becomes(n) ==
  /\ currToken' = n.currToken
  /\ tokens' = n.tokens
  /\ byteIndex' = n.byteIndex
  /\ errs' = n.errs
  /\ err' = n.err
  /\ cols' = n.cols
  /\ pc' = n.pc
  /\ query' = n.query
  /\ UNCHANGED <<other, validIdentifierChars>>

\* the rune the cursor is at
Rune == DecodeRuneInString(query, byteIndex).rune

AtEnd == byteIndex = ByteLen(query)

ParseBegin == pc = "start" /\ Becomes(parseBegin(Self))

ScanSpace ==
  /\ pc = "scan" /\ ~AtEnd /\ isSpace(Rune)
  /\ Becomes(parseLoop(Self))

ScanBackTick ==
  /\ pc = "scan" /\ ~AtEnd /\ Rune = BackTick
  /\ Becomes(parseLoop(Self))

ScanSingleQuote ==
  /\ pc = "scan" /\ ~AtEnd /\ Rune = SingleQuote
  /\ Becomes(parseLoop(Self))

ScanPunctuation ==
  /\ pc = "scan" /\ ~AtEnd /\ Rune \in Punctuation
  /\ Becomes(parseLoop(Self))

ScanIdentifier ==
  /\ pc = "scan" /\ ~AtEnd /\ Rune \in validIdentifierChars
  /\ Becomes(parseLoop(Self))

ScanUnexpected ==
  /\ pc = "scan" /\ ~AtEnd
  /\ ~isSpace(Rune)
  /\ Rune \notin {BackTick, SingleQuote} \cup Punctuation \cup validIdentifierChars
  /\ Becomes(parseLoop(Self))

ParseReturn == pc = "scan" /\ AtEnd /\ Becomes(parseReturn(Self))

BackTickUnclosed ==
  /\ pc = "backtick" /\ AtEnd
  /\ Becomes(parseUntilClosingBackTick(Self))

\* line 44: the call returns the token
BackTickClosed ==
  /\ pc = "backtick" /\ ~AtEnd
  /\ parseUntilClosingBackTick(Self).pc = "scan"
  /\ Becomes(parseUntilClosingBackTick(Self))

\* line 46: the call does not return
BackTickNext ==
  /\ pc = "backtick" /\ ~AtEnd
  /\ parseUntilClosingBackTick(Self).pc # "scan"
  /\ Becomes(parseUntilClosingBackTick(Self))

SingleQuoteUnclosed ==
  /\ pc = "single" /\ AtEnd
  /\ Becomes(parseUntilClosingSingleQuote(Self))

\* line 57: the call returns the token
SingleQuoteClosed ==
  /\ pc = "single" /\ ~AtEnd
  /\ parseUntilClosingSingleQuote(Self).pc = "scan"
  /\ Becomes(parseUntilClosingSingleQuote(Self))

\* line 59: the call does not return
SingleQuoteNext ==
  /\ pc = "single" /\ ~AtEnd
  /\ parseUntilClosingSingleQuote(Self).pc # "scan"
  /\ Becomes(parseUntilClosingSingleQuote(Self))

IdentifierNext ==
  /\ pc = "ident" /\ ~AtEnd /\ Rune \in validIdentifierChars
  /\ Becomes(parseNonQuotedIdentifier(Self))

IdentifierEnd ==
  /\ pc = "ident" /\ (IF AtEnd THEN TRUE ELSE Rune \notin validIdentifierChars)
  /\ Becomes(parseNonQuotedIdentifier(Self))

Columns == pc = "parsed" /\ Becomes(columnsCall(Self))

Next ==
  \/ ParseBegin
  \/ ScanSpace
  \/ ScanBackTick
  \/ ScanSingleQuote
  \/ ScanPunctuation
  \/ ScanIdentifier
  \/ ScanUnexpected
  \/ ParseReturn
  \/ BackTickUnclosed
  \/ BackTickClosed
  \/ BackTickNext
  \/ SingleQuoteUnclosed
  \/ SingleQuoteClosed
  \/ SingleQuoteNext
  \/ IdentifierNext
  \/ IdentifierEnd
  \/ Columns

Spec == Init /\ [][Next]_vars

\* the program is sequential: a step that can be taken is taken
SpecLive == Spec /\ WF_vars(Next)

(* Two extractors, each built for its own query, their steps interleaved    *)
(* in any order, as two goroutines calling parse() and columns() would.     *)

PairQueries ==
  { QueryEscaped, QuerySingleQuotes, QueryNoSpace, QueryUnclosed,
    QueryUnexpected }

InitPair ==
  /\ query \in PairQueries
  /\ currToken = <<>>
  /\ tokens = <<>>
  /\ byteIndex = 0
  /\ errs = <<>>
  /\ err = Nil
  /\ cols = <<>>
  /\ pc = "start"
  /\ other \in { NewExtractor(q) : q \in PairQueries }
  /\ validIdentifierChars = initValidIdentifierChars

\* the second extractor reading the current-token buffer of the first, as if
\* the buffer were one package-level slice
OtherSelfSharedBuffer == [other EXCEPT !.currToken = currToken]

\* the receiver of the second extractor's methods: its own fields
OtherSelf == other

\* a step of the second extractor
OtherStep ==
  /\ other.pc \notin {"done", "panic"}
  /\ other' = Step(OtherSelf)
  /\ UNCHANGED <<query, currToken, tokens, byteIndex, errs, err, cols, pc,
                 validIdentifierChars>>

NextPair == Next \/ OtherStep

SpecPair == InitPair /\ [][NextPair]_vars

----------------------------------------------------------------------------
(* Properties *)

\* each generated statement with the column list it was written from
StatementTable ==
  { <<Statement(tr, cs, w), cs>> :
      tr \in TableRefs, cs \in ColumnLists, w \in Paddings }

Spaces == {" ", "\t", "\n"}

InQuotedRun == pc \in {"backtick", "single"}

\* a quoted-run step at a punctuation or whitespace rune appends it to the
\* current token, emits nothing and stays in the run
QuotedRunKeeps ==
  (InQuotedRun /\ ~AtEnd /\ Rune \in Punctuation \cup Spaces) =>
    /\ currToken' = Append(currToken, Rune)
    /\ tokens' = tokens
    /\ pc' = pc

\* t with the parentheses and commas between its delimiters replaced by x,
\* when t is a quoted token
NeutralToken(t) ==
  IF Len(t) >= 2 /\ t[1] \in {BackTick, SingleQuote}
  THEN [ i \in 1..Len(t) |->
           IF 1 < i /\ i < Len(t) /\ t[i] \in {"(", ")", ","} THEN "x" ELSE t[i] ]
  ELSE t

\* the runes q with the parentheses and commas inside closed quoted runs
\* replaced by x
NeutralText(q) ==
  LET gs == Segments(q)
  IN  [ i \in 1..Len(q) |->
          IF /\ q[i] \in {"(", ")", ","}
             /\ \E k \in 1..Len(gs) :
                  gs[k].kind = "quoted" /\ gs[k].from < i /\ i < gs[k].to
          THEN "x" ELSE q[i] ]

QuotedNeutral ==
  pc = "done" =>
    LET r == Run(String(NeutralText(Text)))
    IN  /\ Len(r.tokens) = Len(tokens)
        /\ Len(r.cols) = Len(cols)
        /\ r.tokens = [ i \in 1..Len(tokens) |-> NeutralToken(tokens[i]) ]
        /\ r.cols = [ i \in 1..Len(cols) |-> NeutralToken(cols[i]) ]

\* C2: inside a backtick- or single-quoted run the runes ( ) , . and
\* whitespace are appended to the current quoted token and never emitted as
\* tokens of their own; so the parentheses and commas inside closed quoted
\* tokens change neither the tokens around them nor which and how many
\* columns columns() returns: with those runes replaced by a letter, the
\* tokens and the columns are the same up to that replacement.
C2_QuotedPunctuationKept == [][QuotedRunKeeps]_vars /\ []QuotedNeutral

\* C2 witness: the first query of main is done; its table reference and its
\* third column hold parentheses inside quotes, and three columns come out.
C2_Witness ==
  /\ pc = "done"
  /\ query = QueryMain1
  /\ Len(cols) = 3
  /\ \E i \in 1..Len(cols[3]) : cols[3][i] = ")"
  /\ String(NeutralText(Text)) # query

InsertAt(q, i, c) == SubSeq(q, 1, i) \o <<c>> \o SubSeq(q, i + 1, Len(q))

RemoveAt(q, i) == SubSeq(q, 1, i - 1) \o SubSeq(q, i + 1, Len(q))

\* the positions of the punctuation runes outside quoted runs
PunctuationAt(q) ==
  LET gs == Segments(q)
  IN  { gs[k].from : k \in { n \in 1..Len(gs) : gs[n].kind = "punctuation" } }

SameTokensAndColumns(r) == r.tokens = tokens /\ r.cols = cols

\* C3: inserting a space, tab or newline right before or right after a
\* punctuation rune outside quoted runs, or removing one that stands there,
\* leaves the tokens of parse() and the list of columns() unchanged.
C3_AdjacencyInvariance ==
  pc = "done" =>
    \A i \in PunctuationAt(Text) :
      /\ \A c \in Spaces : \A k \in {i - 1, i} :
           SameTokensAndColumns(Run(String(InsertAt(Text, k, c))))
      /\ \A k \in {i - 1, i + 1} \cap (1..Len(Text)) :
           Text[k] \in Spaces =>
             SameTokensAndColumns(Run(String(RemoveAt(Text, k))))

\* C3 witness: the test query table(column1, column2) is done, with the
\* tokens and columns of table (column1, column2), and a removable blank
C3_Witness ==
  /\ pc = "done"
  /\ query = QueryNoSpace
  /\ SameTokensAndColumns(Run(QuerySimple))
  /\ QuerySimple = InsertAt(query, 17, " ")
  /\ 18 \in PunctuationAt(Text)
  /\ Len(cols) = 2

\* C4: after parse() the token stream holds no empty token.
\* The code appends string(nil), the empty string, when a quoted run is
\* left unclosed, so this is violated.
C4_NoEmptyToken ==
  Parsed => \A i \in 1..Len(tokens) : tokens[i] # <<>>

\* the error parse records for the unterminated run g
UnclosedError(g) ==
  IF g.text[1] = BackTick THEN UnclosedBackTick ELSE UnclosedSingleQuote

\* C5: when the input ends inside a quoted run, parse() returns with an
\* error whose last entry is the unclosed-quote error of that quote kind,
\* the cursor is at the end of the input, and the token stream is exactly
\* the tokens emitted before the opening quote: it ends at the failure.
\* The empty token of C4 is appended after them, so this is violated.
C5_UnclosedQuote ==
  Parsed =>
    \A g \in UnclosedOf(Text) :
      /\ err # Nil
      /\ err[2][Len(err[2])] = UnclosedError(g)
      /\ byteIndex = Len(query)
      /\ tokens = TokenTexts(SubSeq(Text, 1, g.from - 1))

\* a token with the same quote at both ends
IsDelimited(t) ==
  Len(t) >= 2 /\ t[1] \in {BackTick, SingleQuote} /\ t[Len(t)] = t[1]

ExpectedErrors(q) ==
  LET bad(g) == g.kind \in {"unexpected", "unclosed"}
      gs == SelectSeq(Segments(q), bad)
  IN  [ k \in 1..Len(gs) |->
          IF gs[k].kind = "unexpected"
          THEN <<"unexpected rune: ", String(gs[k].text)>>
          ELSE UnclosedError(gs[k]) ]

\* C7: parse() returns nil exactly when the text has no unexpected rune
\* outside quoted runs and no unterminated quoted run; otherwise the error
\* returned holds one entry per unexpected rune, in order of occurrence,
\* and after them the entry of the unterminated run if there is one.
C7_ErrorAggregation ==
  Parsed =>
    /\ (err = Nil) <=> (ExpectedErrors(Text) = <<>>)
    /\ err # Nil => err = <<"joinError", ExpectedErrors(Text)>>

\* C7 witness: parse returned three errors: two unexpected runes, then an
\* unclosed single quote.
C7_Witness ==
  /\ Parsed
  /\ err # Nil
  /\ Len(err[2]) = 3
  /\ err[2][1][1] = "unexpected rune: "
  /\ err[2][2][1] = "unexpected rune: "
  /\ err[2][3] = UnclosedSingleQuote

\* a rune the loop of parse has no case for
IsUnexpected(r) ==
  /\ r \notin Spaces
  /\ r \notin {BackTick, SingleQuote, "(", ")", ",", "."}
  /\ ~IsBareIdentifier(<<r>>)

\* the loop of parse at an unexpected rune records one error, emits no
\* token, moves the cursor past the encoding of that rune and goes on scanning
UnexpectedIsSkipped ==
  (pc = "scan" /\ ~AtEnd /\ IsUnexpected(Rune)) =>
    /\ errs' = Append(errs, <<"unexpected rune: ", EncodeRune(Rune)>>)
    /\ tokens' = tokens
    /\ byteIndex' = byteIndex + Len(EncodeRune(Rune))
    /\ pc' = "scan"

\* the positions of the unexpected runes outside quoted runs
UnexpectedAt(q) ==
  LET gs == Segments(q)
  IN  { gs[k].from : k \in { n \in 1..Len(gs) : gs[n].kind = "unexpected" } }

ReplaceAt(q, i, c) == [q EXCEPT ![i] = c]

UnexpectedAsSpace ==
  pc = "done" =>
    \A i \in UnexpectedAt(Text) :
      Run(String(ReplaceAt(Text, i, " "))).tokens = tokens

\* C8: an unexpected rune met while scanning adds exactly one error, emits
\* no token, consumes exactly that rune, and scanning goes on at the next
\* rune; the tokens are those of the query with that rune replaced by a
\* blank.
C8_UnexpectedRecoverable == [][UnexpectedIsSkipped]_vars /\ []UnexpectedAsSpace

\* C8 witness: a two-byte unexpected rune between two identifier runes has
\* split them into two tokens, with one error.
C8_Witness ==
  /\ pc = "done"
  /\ Text = <<"a", WideRune, "a">>
  /\ tokens = << <<"a">>, <<"a">> >>
  /\ err = <<"joinError", << <<"unexpected rune: ", <<"xC3", "xA9">>>> >> >>

IsNotSpace(g) == g.kind # "space"

NotEmpty(t) == t # <<>>

\* C9 as stated: the tokens concatenated are the query without the
\* whitespace outside quoted runs.
C9_OnlyWhitespaceDropped ==
  Parsed =>
    LET gs == SelectSeq(Segments(Text), IsNotSpace)
    IN  Flatten(tokens) = Flatten([ k \in 1..Len(gs) |-> String(gs[k].text) ])

\* C9 amended: the tokens other than the empty one are, in order, the
\* quoted runs, identifiers and punctuation runes of the query, verbatim;
\* concatenated they are the query without the whitespace outside quoted
\* runs, the unexpected runes and the text of an unterminated quoted run.
C9_TokensVerbatim ==
  Parsed =>
    /\ SelectSeq(tokens, NotEmpty) = TokenTexts(Text)
    /\ Flatten(tokens) = Flatten(TokenTexts(Text))

\* C9 witness: parse is over for a query with whitespace outside and inside
\* quotes, an unexpected rune and an unterminated run.
C9_Witness ==
  /\ Parsed
  /\ query = QueryUnexpected
  /\ Len(tokens) = 10
  /\ tokens[Len(tokens)] = <<>>
  /\ Len(Flatten(tokens)) < Len(query)

\* the index of the first token of toks equal to t, 0 when there is none
FirstOf(toks, t) ==
  LET is == { i \in 1..Len(toks) : toks[i] = t }
  IN  IF is = {} THEN 0 ELSE CHOOSE i \in is : \A k \in is : i <= k

IsNotComma(t) == t # <<",">>

\* C10: columns() returns no column for a stream with no ( token, and for
\* a stream with a ( token and no ) token after it, every token after that
\* ( but the commas.
C10_OpenOnly ==
  pc = "done" =>
    LET open == FirstOf(tokens, <<"(">>)
        rest == SubSeq(tokens, open + 1, Len(tokens))
    IN  /\ open = 0 => cols = <<>>
        /\ (open # 0 /\ FirstOf(rest, <<")">>) = 0) =>
             cols = SelectSeq(rest, IsNotComma)

\* C11: after parse(), every token that begins with a backtick or a single
\* quote has at least two code points and ends with the quote it begins with.
C11_QuotedTokensDelimited ==
  Parsed =>
    \A i \in 1..Len(tokens) :
      (tokens[i] # <<>> /\ tokens[i][1] \in {BackTick, SingleQuote}) =>
        (Len(tokens[i]) >= 2 /\ tokens[i][Len(tokens[i])] = tokens[i][1])

\* C11 witness: parse is over with a backtick token that holds an escaped
\* backtick, then the empty token of an unclosed single-quoted run.
C11_Witness ==
  /\ Parsed
  /\ Len(tokens) = 2
  /\ tokens[1] = <<BackTick, BackSlash, BackTick, BackTick>>
  /\ tokens[2] = <<>>
  /\ err = <<"joinError", <<UnclosedSingleQuote>>>>

\* the shared table is not written
TableNotWritten == validIdentifierChars' = validIdentifierChars

\* each extractor that is done holds the tokens, errors and columns of a run
\* of its query alone
AsAlone ==
  /\ pc = "done" =>
       LET r == Run(query)
       IN  tokens = r.tokens /\ errs = r.errs /\ err = r.err /\ cols = r.cols
  /\ other.pc = "done" =>
       LET r == Run(other.query)
       IN  /\ other.tokens = r.tokens /\ other.errs = r.errs
           /\ other.err = r.err /\ other.cols = r.cols

\* C12: two extractors whose parse() and columns() steps are interleaved in
\* any order, each on its own query, end with the tokens, errors and columns
\* they have when run alone, and no step writes the shared table
\* validIdentifierChars.
C12_Independent == [][TableNotWritten]_vars /\ []AsAlone

\* C12 witness: both extractors are done, on different queries, one with
\* an error and one without.
C12_Witness ==
  /\ pc = "done"
  /\ other.pc = "done"
  /\ query = QueryUnexpected
  /\ other.query = QueryEscaped
  /\ err # Nil
  /\ other.err = Nil
  /\ Len(other.cols) = 2

\* the tokens of toks before its first ) token, all of them when it has none
UpToClose(toks) ==
  LET close == FirstOf(toks, <<")">>)
  IN  IF close = 0 THEN toks ELSE SubSeq(toks, 1, close - 1)

\* C13: the tokens before the first ( token have no effect on columns():
\* the result on the whole stream is the result on the stream from its
\* first ( token on, whatever precedes that token.
C13_PrefixIgnored ==
  pc = "done" =>
    LET open == FirstOf(tokens, <<"(">>)
    IN  open # 0 => cols = columns(SubSeq(tokens, open, Len(tokens)))

\* C14: after the first ( token, columns() collects every token but the
\* commas up to the first ) token after it, a second ( token included.
C14_SecondOpenCollected ==
  pc = "done" =>
    LET open == FirstOf(tokens, <<"(">>)
        rest == SubSeq(tokens, open + 1, Len(tokens))
    IN  open # 0 => cols = SelectSeq(UpToClose(rest), IsNotComma)

\* the position in the query of the opening quote of the run being read
RunStart == byteIndex - Len(String(currToken)) + 1

\* a quoted run that ends with a token ends at the first delimiter of its
\* own kind after the opening quote that no backslash precedes, and the
\* token is the text from the opening quote to that delimiter
QuotedRunEndsAtClosing ==
  (InQuotedRun /\ ~AtEnd /\ pc' = "scan") =>
    /\ byteIndex' = ClosingOf(query, RunStart)
    /\ tokens' = Append(tokens, SubSeq(query, RunStart, byteIndex'))

\* a quoted run that goes on has not reached such a delimiter: the rune
\* just read is another rune, the other quote included, or follows a backslash
QuotedRunGoesOn ==
  (InQuotedRun /\ pc' = pc) =>
    /\ byteIndex' > byteIndex
    /\ currToken' = Append(currToken, Rune)
    /\ tokens' = tokens
    /\ ClosingOf(query, RunStart) \in {0} \cup ((byteIndex' + 1)..Len(query))

\* a quoted run that meets the end of the query has no such delimiter
QuotedRunUnclosed ==
  (InQuotedRun /\ AtEnd) => ClosingOf(query, RunStart) = 0

\* C15: a quoted run ends at the first occurrence of its own delimiter
\* whose preceding code point is not a backslash; before that delimiter the
\* other quote and a delimiter right after a backslash are kept as content,
\* also when that backslash follows a backslash.
C15_OneStepLookBack ==
  [][QuotedRunEndsAtClosing /\ QuotedRunGoesOn]_vars /\ []QuotedRunUnclosed

\* C15 witness: a backtick token that holds two backslashes and then a
\* backtick, closed by the next backtick.
C15_Witness ==
  /\ Parsed
  /\ query = <<BackTick, BackSlash, BackSlash, BackTick, BackTick>>
  /\ tokens = << <<BackTick, BackSlash, BackSlash, BackTick, BackTick>> >>
  /\ err = Nil

InParse == pc \in {"scan", "backtick", "single", "ident"}

InSubScanner == pc \in {"backtick", "single", "ident"}

\* twice the bytes left to read, plus one inside a sub-scanner
Remaining ==
  2 * (Len(query) - byteIndex) + (IF InSubScanner THEN 1 ELSE 0)

\* a step of the loop of parse or of a sub-scanner moves the cursor past at
\* least the rune it is at, or returns: a sub-scanner to the loop, the loop
\* from parse; and no step moves the cursor back
AdvancesOrReturns ==
  /\ byteIndex' >= byteIndex
  /\ InParse =>
       \/ ~AtEnd /\ byteIndex' >= byteIndex + Len(EncodeRune(Rune))
       \/ InSubScanner /\ pc' = "scan"
       \/ pc' = "parsed"

\* every step of parse but its return brings the end nearer
RemainingDecreases ==
  (InParse /\ pc' # "parsed") => (Remaining' < Remaining /\ Remaining' >= 0)

\* the cursor is within the query, and at its end once parse has returned
CursorInRange ==
  /\ byteIndex \in 0..Len(query)
  /\ Parsed => byteIndex = Len(query)

\* C16: parse() terminates: every step of the loop and of the sub-scanners
\* advances the cursor by at least one code point or returns, the cursor
\* never decreases nor passes the length of the query, and parse() ends, with
\* the cursor equal to the length of the query.
C16_Terminates ==
  /\ [][AdvancesOrReturns /\ RemainingDecreases]_vars
  /\ []CursorInRange
  /\ <>Parsed

\* C16 witness: parse has returned on a query that ends inside a backtick
\* run, after steps of the loop and of the three sub-scanners.
C16_Witness ==
  /\ pc = "parsed"
  /\ query = QueryUnclosed
  /\ byteIndex = Len(query)
  /\ errs = <<UnclosedBackTick>>
  /\ Len(tokens) = 9

\* the identifier scan returns with a token made of identifier characters
\* only, the text of the query from the first of them to the cursor; it
\* leaves the cursor where it is, at the end of the query or on a rune that
\* is no identifier character, so that the run is maximal
IdentifierEndsRun ==
  (pc = "ident" /\ pc' = "scan") =>
    /\ IsBareIdentifier(currToken)
    /\ tokens' = Append(tokens, String(currToken))
    /\ String(currToken) = SubSeq(query, RunStart, byteIndex)
    /\ byteIndex = RunEndOf(query, RunStart)
    /\ byteIndex' = byteIndex
    /\ errs' = errs

\* the identifier scan goes on over an identifier character only
IdentifierGoesOn ==
  (pc = "ident" /\ pc' = "ident") =>
    /\ IsBareIdentifier(<<Rune>>)
    /\ currToken' = Append(currToken, Rune)
    /\ byteIndex' = byteIndex + 1
    /\ tokens' = tokens

\* the loop of parse on a rune that is no identifier character: a
\* punctuation token, the start of a quoted run, nothing for whitespace, or
\* an error
ScanDispatches ==
  (pc = "scan" /\ ~AtEnd /\ ~IsBareIdentifier(<<Rune>>)) =>
    /\ byteIndex' = byteIndex + Len(EncodeRune(Rune))
    /\ Rune \in {"(", ")", ",", "."} =>
         (tokens' = Append(tokens, <<Rune>>) /\ errs' = errs /\ pc' = "scan")
    /\ Rune = BackTick =>
         (tokens' = tokens /\ errs' = errs /\ pc' = "backtick")
    /\ Rune = SingleQuote =>
         (tokens' = tokens /\ errs' = errs /\ pc' = "single")
    /\ Rune \in Spaces =>
         (tokens' = tokens /\ errs' = errs /\ pc' = "scan")
    /\ IsUnexpected(Rune) =>
         (tokens' = tokens /\ Len(errs') = Len(errs) + 1 /\ pc' = "scan")

\* after parse(), the character right after an identifier token of the
\* query is no identifier character
AfterIdentifier ==
  Parsed =>
    LET gs == Segments(Text)
    IN  \A k \in 1..Len(gs) :
          (gs[k].kind = "identifier" /\ gs[k].to < Len(Text)) =>
            /\ ~IsBareIdentifier(<<Text[gs[k].to + 1]>>)
            /\ \E i \in 1..Len(tokens) : tokens[i] = String(gs[k].text)

\* C17: the identifier scan consumes a maximal run of ASCII letters, digits
\* and underscore: an identifier token holds identifier characters only,
\* the rune that ends the run is left to the loop of parse, which makes it
\* a punctuation token, the start of a quoted token, dropped whitespace or
\* an unexpected-rune error, and no identifier character follows an
\* identifier token in the query.
C17_MaximalIdentifier ==
  /\ [][IdentifierEndsRun /\ IdentifierGoesOn /\ ScanDispatches]_vars
  /\ []AfterIdentifier

\* C17 witness: the identifier table of a query was ended by the ( right
\* after it, which is the next token.
C17_Witness ==
  /\ pc = "scan"
  /\ query = QueryNoSpace
  /\ Len(tokens) = 4
  /\ tokens[3] = <<"t", "a", "b", "l", "e">>
  /\ tokens[4] = <<"(">>

\* the quote that opened the run being read
OpeningQuote == IF pc = "backtick" THEN BackTick ELSE SingleQuote

\* no index of currToken was out of range
NoFault == pc # "panic" /\ other.pc # "panic"

\* inside a quoted run currToken is the text of the query from the opening
\* quote of this run to the cursor, so that after the next append it has
\* two elements at least and the element looked back at is the opening
\* quote or a rune of this run
BufferHoldsRun ==
  InQuotedRun =>
    /\ Len(currToken) >= 1
    /\ currToken[1] = OpeningQuote
    /\ RunStart >= 1
    /\ String(currToken) = SubSeq(query, RunStart, byteIndex)

\* a step of a quote scanner that reads a rune looks back at index
\* len(currToken) - 2 of the buffer with that rune appended, which is in
\* range
LookBackInRange ==
  (InQuotedRun /\ ~AtEnd) =>
    /\ currToken' = Append(currToken, Rune)
    /\ Len(currToken') - 2 \in 0..(Len(currToken') - 1)
    /\ pc' \in {pc, "scan"}

\* C18: parse() never faults: whenever a quote scanner evaluates
\* currToken[len(currToken)-2] the buffer has two elements at least, with
\* the opening quote of the run at index 0, so the index is in range and
\* the first rune of a run is compared with the opening quote and not
\* with a rune of an earlier token.
C18_NoFault == [][LookBackInRange]_vars /\ [](NoFault /\ BufferHoldsRun)

\* C18 witness: a quoted run read right after an identifier closes at its
\* first rune, which was compared with the opening quote: the token is the
\* two quotes.
C18_Witness ==
  /\ Parsed
  /\ query = <<"a", BackTick, BackTick>>
  /\ tokens = << <<"a">>, <<BackTick, BackTick>> >>
  /\ err = Nil

====
